---- MODULE Spec2Model ----
(***************************************************************************)
(* A model of clclite.c, the curses telnet client: the scrollback buffer   *)
(* (sbuffer/last), the edit buffer (editbuf), the ANSI renderer            *)
(* (terminal) and the telnet event handler.                                *)
(*                                                                         *)
(* Characters are their integer codes.  A C string is the sequence of its  *)
(* characters before the terminating NUL.                                  *)
(*                                                                         *)
(* The array sizes of the source (MAXLINES 100, MAX_LINE_LENGTH 1001,      *)
(* EDITBUF_MAX 1001, TERM_MAX_ESC 16) are macros the code is uniform in;   *)
(* the model is checked with the scaled-down values defined below, and     *)
(* every formula is stated in terms of the macro, never of its value.      *)
(***************************************************************************)
EXTENDS Integers, Sequences, FiniteSets, TLC

\* ------------------------------------------------------------------------
\* Sizes (scaled; see the header) and exploration bounds
\* ------------------------------------------------------------------------

\* clclite.c:86 (#define MAXLINES 100), scaled
MAXLINES == 3

\* clclite.c:87 (#define MAX_LINE_LENGTH 1001), scaled; a line holds
\* MAX_LINE_LENGTH-1 characters and its terminator
MAX_LINE_LENGTH == 8

\* calls of add_char_buffer / add_line_buffer explored by SpecBuf
MaxAppends == 8

\* calls of add_line_buffer among them
MaxLineCalls == 1

\* clclite.c:65 (#define EDITBUF_MAX 1001), scaled
EDITBUF_MAX == 4

\* size_t arithmetic is modulo 2^64 in the build; the model keeps the
\* wrap-around with a scaled modulus (any modulus above twice the array
\* sizes gives the same behaviours up to renaming of the wrapped values)
SIZE_MOD == 65536

\* keys explored by SpecEdit
MaxKeys == 6

\* clclite.c:48 (#define TERM_MAX_ESC 16), scaled
TERM_MAX_ESC == 2

\* calls of send_text_ansi explored by SpecTerm
MaxTexts == 2

\* bytes of application data explored by SpecRecv
MaxRecv == 8

\* keys read by the main loop in SpecLoop
MaxLoopKeys == 3

\* calls of recv in SpecLoop
MaxLoopRecv == 2

\* signals delivered in SpecLoop
MaxSignals == 2

\* bytes of the longest frame handed to do_send in SpecSend
MaxFrame == 3

\* bytes do_send gets to write in SpecSend
MaxSent == 6

\* calls of send() in SpecSend
MaxSendCalls == 5

\* ------------------------------------------------------------------------
\* Characters
\* ------------------------------------------------------------------------

NUL == 0

BEL == 7

LF == 10

CR == 13

ESC == 27

\* the first of the distinct printable characters the buffer is fed with
CH_A == 65

CH_a == 97

CH_0 == 48

CH_SEMI == 59

CH_H == 72

CH_LBRACKET == 91

CH_e == 101

CH_l == 108

CH_o == 111

CH_m == 109

CH_x == 120

CH_W == 87

CH_R == 82

CH_N == 78

CH_I == 73

CH_G == 71

CH_COLON == 58

\* errno.h
EAGAIN == 11

EINTR == 4

EPIPE == 32

\* curses.h: what wgetch returns when it has no key
ERR == -1

TERM_COLOR_DEFAULT == 9

TERM_FLAG_ECHO == 1

TERM_FLAG_NAWS == 4

\* <libtelnet.h> option codes, as telnet_event tests them
TELNET_TELOPT_ECHO == 1

TELNET_TELOPT_NAWS == 31

TELNET_TELOPT_ZMP == 93

\* what a read past the end of an array yields: some bytes the model does
\* not know
GARBAGE == -1

\* <ncurses.h> key codes, as on_key tests them
KEY_MIN == 257

KEY_MAX == 511

KEY_DOWN == 258

KEY_UP == 259

KEY_LEFT == 260

KEY_RIGHT == 261

KEY_HOME == 262

KEY_BACKSPACE == 263

KEY_DC == 330

KEY_NPAGE == 338

KEY_PPAGE == 339

KEY_ENTER == 343

KEY_END == 360

Min(a, b) == IF a < b THEN a ELSE b

Max(a, b) == IF a > b THEN a ELSE b

Prefix(s, n) == SubSeq(s, 1, Min(n, Len(s)))

\* ------------------------------------------------------------------------
\* State
\* ------------------------------------------------------------------------

VARIABLES
    sbuffer,    \* char sbuffer[MAXLINES][MAX_LINE_LENGTH]: row -> its string
    last,       \* static int last: the row the next character goes to
    wr,         \* the array cells <<row, col>> the last buffer call wrote
    hist,       \* every character handed to add_char_buffer so far
    nline,      \* calls of add_line_buffer so far
    editbuf,    \* struct EDITBUF: buf (cell -> char), size, pos, start
    COLS,       \* curses COLS: the width of the terminal
    LINES,      \* curses LINES: the height of the terminal
    windowpos,  \* static int windowpos: first row of the viewport
    updowntoggle, \* static int updowntoggle: the user scrolled manually
    telnet_out, \* what the last handler handed to libtelnet, in order
    crashed,    \* the process stopped on a memory fault
    nkeys,      \* keys handled so far
    terminal,   \* struct TERMINAL: state, esc_buf, esc_cnt, flags, color
    ntexts,     \* calls of send_text_ansi so far
    beeps,      \* calls of beep() so far
    rx,         \* the application data delivered so far (TELNET_EV_DATA)
    running,    \* static int running
    ev,         \* the event the last handler handled
    peer_do_naws, \* the peer has sent DO NAWS
    pc,         \* where main is: the statement it executes next
    have_sigwinch, \* static int have_sigwinch
    have_sigint,   \* static int have_sigint
    revents,    \* fds[].revents: the descriptors poll reported readable
    exit_code,  \* the exit status of the process, -1 while it runs
    shutdown,   \* what the process did to the display on its way out
    nsig,       \* signals delivered so far
    nrecv,      \* calls of recv so far
    snd         \* do_send: len (bytes left), sent_bytes, tries, fails

bufvars == <<sbuffer, last, wr, hist, nline>>

editvars == <<editbuf, windowpos, updowntoggle, telnet_out, crashed, nkeys>>

scrvars == <<COLS, LINES>>

termvars == <<terminal, ntexts>>

recvvars == <<beeps, rx>>

negvars == <<ev, peer_do_naws>>

loopvars == <<running, pc, have_sigwinch, have_sigint, revents, exit_code, shutdown,
              nsig, nrecv, snd>>

othervars == <<recvvars, negvars, loopvars>>

vars == <<sbuffer, last, wr, hist, nline, editbuf, COLS, LINES, windowpos,
          updowntoggle, telnet_out, crashed, nkeys, terminal, ntexts, beeps, rx,
          running, ev, peer_do_naws, pc, have_sigwinch, have_sigint, revents,
          exit_code, shutdown, nsig, nrecv, snd>>

\* ------------------------------------------------------------------------
\* The scrollback buffer (clclite.c:125-178)
\* ------------------------------------------------------------------------

Rows == 0 .. (MAXLINES - 1)

\* buffer[y] read as a string; a row outside the array reads as empty
Row(buffer, y) == IF y \in DOMAIN buffer THEN buffer[y] ELSE <<>>

\* the cells strcpy(buffer[y], s) writes: the characters and the terminator
StrcpyCells(y, s) == { <<y, j>> : j \in 0 .. Len(s) }

init_buffer == [y \in Rows |-> <<>>]

\* scroll_buffer discarding the newest row instead of the oldest
scroll_buffer_newest(buffer) ==
    [ buffer |-> [y \in Rows |-> IF y < MAXLINES - 1 THEN Row(buffer, y) ELSE <<>>],
      writes |-> { <<MAXLINES - 1, 0>> } ]

scroll_buffer(buffer) ==
    [ buffer |-> [y \in Rows |-> IF y < MAXLINES - 1 THEN Row(buffer, y + 1) ELSE <<>>],
      writes |-> UNION { StrcpyCells(y - 1, Row(buffer, y)) : y \in 1 .. (MAXLINES - 1) }
                 \cup { <<MAXLINES - 1, 0>> } ]

\* add_char_buffer without the "Don't go off the end!" clamp of x
add_char_buffer_noclamp(buffer, c, lastline) ==
    LET scrolled == (lastline = MAXLINES)
        sc == scroll_buffer(buffer)
        b1 == IF scrolled THEN sc.buffer ELSE buffer
        l1 == IF scrolled THEN lastline - 1 ELSE lastline
        x == Len(Row(b1, l1))
        line == Prefix(Row(b1, l1), x) \o (IF c = NUL THEN <<>> ELSE <<c>>)
    IN  [ buffer |-> [y \in DOMAIN b1 |-> IF y = l1 THEN line ELSE b1[y]],
          last |-> IF c = LF THEN l1 + 1 ELSE l1,
          writes |-> (IF scrolled THEN sc.writes ELSE {}) \cup { <<l1, x>>, <<l1, x + 1>> } ]

add_char_buffer(buffer, c, lastline) ==
    LET scrolled == (lastline = MAXLINES)
        sc == scroll_buffer(buffer)
        b1 == IF scrolled THEN sc.buffer ELSE buffer
        l1 == IF scrolled THEN lastline - 1 ELSE lastline
        len == Len(Row(b1, l1))
        x == IF len > MAX_LINE_LENGTH - 2 THEN MAX_LINE_LENGTH - 2 ELSE len
        \* buffer[l1][x] = c; buffer[l1][x+1] = '\0'
        line == Prefix(Row(b1, l1), x) \o (IF c = NUL THEN <<>> ELSE <<c>>)
    IN  [ buffer |-> [y \in DOMAIN b1 |-> IF y = l1 THEN line ELSE b1[y]],
          last |-> IF c = LF THEN l1 + 1 ELSE l1,
          writes |-> (IF scrolled THEN sc.writes ELSE {}) \cup { <<l1, x>>, <<l1, x + 1>> } ]

add_line_buffer(buffer, line, lastline) ==
    LET scrolled == (lastline = MAXLINES)
        sc == scroll_buffer(buffer)
        b1 == IF scrolled THEN sc.buffer ELSE buffer
        l1 == IF scrolled THEN lastline - 1 ELSE lastline
        \* line[MAX_LINE_LENGTH - 2] = '\0'
        cut == IF Len(line) > MAX_LINE_LENGTH - 2 THEN Prefix(line, MAX_LINE_LENGTH - 2) ELSE line
    IN  [ buffer |-> [y \in DOMAIN b1 |-> IF y = l1 THEN cut ELSE b1[y]],
          last |-> l1 + 1,
          writes |-> (IF scrolled THEN sc.writes ELSE {}) \cup StrcpyCells(l1, cut) ]

\* ------------------------------------------------------------------------
\* The edit buffer (clclite.c:64-73, 221-326)
\*
\* Every operator returns [e |-> the new struct, fault |-> "none", "read"
\* or "write"]: "read" when the code read outside editbuf.buf, "write" when
\* it wrote (or moved memory) outside it.
\* ------------------------------------------------------------------------

Cells == 0 .. (EDITBUF_MAX - 1)

InBuf(i) == i \in Cells

\* size_t subtraction and addition
Sub(a, b) == (a - b + SIZE_MOD) % SIZE_MOD

Add(a, b) == (a + b) % SIZE_MOD

\* a size_t converted to int is negative from half the range on
IsNegInt(n) == n >= SIZE_MOD \div 2

Worse(f, g) ==
    IF f = "write" \/ g = "write" THEN "write"
    ELSE IF f = "read" \/ g = "read" THEN "read" ELSE "none"

\* memset(&editbuf, 0, sizeof(struct EDITBUF))
EditbufZero == [ buf |-> [i \in Cells |-> NUL], size |-> 0, pos |-> 0, start |-> 0 ]

\* memmove(buf + dst, buf + src, n) stays inside buf
MemmoveOk(dst, src, n) ==
    n = 0 \/ (InBuf(dst) /\ InBuf(dst + n - 1) /\ InBuf(src) /\ InBuf(src + n - 1))

Memmove(buf, dst, src, n) ==
    [i \in DOMAIN buf |-> IF i >= dst /\ i < dst + n THEN buf[i - dst + src] ELSE buf[i]]

\* what reading a string at buf + from gives, as printf's %.*s and waddnstr
\* read it: up to prec characters (all of them when prec is negative),
\* stopping at a NUL.  The count is tested before the character is read.
ScanStop(buf, from, prec) ==
    LET stops == { i \in 0 .. EDITBUF_MAX :
                     \/ (~IsNegInt(prec) /\ i >= prec)
                     \/ ~InBuf(from + i)
                     \/ buf[from + i] = NUL }
    IN  CHOOSE i \in stops : \A j \in stops : i <= j

ScanFault(buf, from, prec) ==
    LET i == ScanStop(buf, from, prec)
    IN  IF (~IsNegInt(prec) /\ i >= prec) \/ InBuf(from + i) THEN "none" ELSE "read"

ScanText(buf, from, prec) ==
    [k \in 1 .. ScanStop(buf, from, prec) |-> buf[from + k - 1]]
        \o (IF ScanFault(buf, from, prec) = "read" THEN <<GARBAGE>> ELSE <<>>)

\* snprintf(editbuf.buf, EDITBUF_MAX, "%s", text); pos = size = strlen(text)
editbuf_set(e, text) ==
    LET n == Min(Len(text), EDITBUF_MAX - 1)
    IN  [ e |-> [e EXCEPT !.buf = [i \in Cells |-> IF i < n THEN text[i + 1]
                                                  ELSE IF i = n THEN NUL ELSE e.buf[i]],
                          !.size = Len(text) % SIZE_MOD,
                          !.pos = Len(text) % SIZE_MOD],
          fault |-> "none" ]

editbuf_insert(e, ch) ==
    IF e.size = EDITBUF_MAX THEN [ e |-> e, fault |-> "none" ]
    ELSE IF e.pos = e.size
    THEN IF InBuf(e.pos)
         THEN [ e |-> [e EXCEPT !.buf[e.pos] = ch, !.size = Add(e.size, 1), !.pos = Add(e.size, 1)],
                fault |-> "none" ]
         ELSE [ e |-> [e EXCEPT !.size = Add(e.size, 1), !.pos = Add(e.size, 1)],
                fault |-> "write" ]
    ELSE LET n == Sub(e.size, e.pos)
             ok == MemmoveOk(Add(e.pos, 1), e.pos, n) /\ InBuf(e.pos)
         IN  [ e |-> [e EXCEPT !.buf = IF ok THEN [Memmove(e.buf, e.pos + 1, e.pos, n) EXCEPT ![e.pos] = ch]
                                       ELSE e.buf,
                               !.pos = Add(e.pos, 1),
                               !.size = Add(e.size, 1)],
               fault |-> IF ok THEN "none" ELSE "write" ]

editbuf_bs(e) ==
    IF e.pos = 0 THEN [ e |-> e, fault |-> "none" ]
    ELSE IF e.pos = e.size
    THEN [ e |-> [e EXCEPT !.size = Sub(e.size, 1), !.pos = Sub(e.size, 1)], fault |-> "none" ]
    ELSE LET n == Sub(e.size, e.pos)
             ok == MemmoveOk(e.pos - 1, e.pos, n)
         IN  [ e |-> [e EXCEPT !.buf = IF ok THEN Memmove(e.buf, e.pos - 1, e.pos, n) ELSE e.buf,
                               !.pos = Sub(e.pos, 1),
                               !.size = Sub(e.size, 1)],
               fault |-> IF ok THEN "none" ELSE "write" ]

editbuf_del(e) ==
    IF e.pos = e.size THEN [ e |-> e, fault |-> "none" ]
    ELSE IF e.pos = Sub(e.size, 1)
    THEN [ e |-> [e EXCEPT !.pos = Sub(e.pos, 1), !.size = Sub(e.size, 1)], fault |-> "none" ]
    ELSE LET n == Sub(Sub(e.size, e.pos), 1)
             ok == MemmoveOk(e.pos, Add(e.pos, 1), n)
         IN  [ e |-> [e EXCEPT !.buf = IF ok THEN Memmove(e.buf, e.pos, e.pos + 1, n) ELSE e.buf,
                               !.size = Sub(e.size, 1)],
               fault |-> IF ok THEN "none" ELSE "write" ]

editbuf_home(e) == [ e |-> [e EXCEPT !.pos = 0, !.start = 0], fault |-> "none" ]

editbuf_end(e) == [ e |-> [e EXCEPT !.pos = e.size], fault |-> "none" ]

editbuf_curleft(e) ==
    [ e |-> IF e.pos > 0 THEN [e EXCEPT !.pos = e.pos - 1] ELSE e, fault |-> "none" ]

editbuf_curright(e) ==
    [ e |-> IF e.pos < e.size THEN [e EXCEPT !.pos = e.pos + 1] ELSE e, fault |-> "none" ]

\* editbuf_display: sets start, then mvwaddnstr reads size - start
\* characters at buf + start
editbuf_display(e, cols) ==
    LET st == IF e.pos >= cols THEN Sub(e.pos, cols) ELSE 0
    IN  [ e |-> [e EXCEPT !.start = st],
          fault |-> ScanFault(e.buf, st, Sub(e.size, st)) ]

\* editbuf_display: the column wmove is asked to put the cursor at
editbuf_cursor(e) == e.pos

\* ------------------------------------------------------------------------
\* The ANSI renderer (clclite.c:45-62, 504-527, 536-592)
\* ------------------------------------------------------------------------

EscSlots == 0 .. (TERM_MAX_ESC - 1)

IsDigit(c) == c >= CH_0 /\ c <= CH_0 + 9

\* main: memset(&terminal, 0, ...); state, flags and color set
TerminalInit ==
    [ state |-> "TERM_ASCII",
      esc_buf |-> [i \in EscSlots |-> 0],
      esc_cnt |-> 0,
      flags |-> { TERM_FLAG_ECHO },
      color |-> TERM_COLOR_DEFAULT ]

\* the style one parameter leaves: 0 resets, 31..37 select a colour
EscColor(color, p) ==
    IF p = 0 THEN TERM_COLOR_DEFAULT
    ELSE IF p >= 31 /\ p <= 37 THEN p - 30
    ELSE color

\* the loop of on_term_esc over esc_buf[0 .. esc_cnt-1], from slot i
RECURSIVE EscLoop(_, _, _)
EscLoop(t, i, color) ==
    IF i >= t.esc_cnt THEN color
    ELSE EscLoop(t, i + 1, EscColor(color, t.esc_buf[i]))

\* on_term_esc applying the first parameter only
on_term_esc_first(t, cmd) ==
    IF cmd = CH_m /\ t.esc_cnt > 0
    THEN [t EXCEPT !.color = EscColor(t.color, t.esc_buf[0])]
    ELSE t

on_term_esc(t, cmd) ==
    IF cmd = CH_m THEN [t EXCEPT !.color = EscLoop(t, 0, t.color)] ELSE t

\* TermByte where a ';' that finds the list full starts the last entry anew
TermByte_restart(t, c) ==
    CASE t.state = "TERM_ASCII" ->
            IF c = ESC THEN [t EXCEPT !.state = "TERM_ESC"] ELSE t
      [] t.state = "TERM_ESC" ->
            IF c = CH_LBRACKET
            THEN [t EXCEPT !.state = "TERM_ESCRUN", !.esc_cnt = 0, !.esc_buf[0] = 0]
            ELSE [t EXCEPT !.state = "TERM_ASCII"]
      [] OTHER ->
            IF IsDigit(c)
            THEN LET cnt == IF t.esc_cnt = 0 THEN 1 ELSE t.esc_cnt
                 IN  [t EXCEPT !.esc_cnt = cnt,
                               !.esc_buf[cnt - 1] = t.esc_buf[cnt - 1] * 10 + (c - CH_0)]
            ELSE IF c = CH_SEMI
            THEN IF t.esc_cnt < TERM_MAX_ESC
                 THEN [t EXCEPT !.esc_cnt = t.esc_cnt + 1, !.esc_buf[t.esc_cnt] = 0]
                 ELSE [t EXCEPT !.esc_buf[t.esc_cnt - 1] = 0]
            ELSE [on_term_esc(t, c) EXCEPT !.state = "TERM_ASCII"]

\* one iteration of the loop of send_text_ansi: the byte c
TermByte(t, c) ==
    CASE t.state = "TERM_ASCII" ->
            IF c = ESC THEN [t EXCEPT !.state = "TERM_ESC"] ELSE t
      [] t.state = "TERM_ESC" ->
            IF c = CH_LBRACKET
            THEN [t EXCEPT !.state = "TERM_ESCRUN", !.esc_cnt = 0, !.esc_buf[0] = 0]
            ELSE [t EXCEPT !.state = "TERM_ASCII"]
      [] OTHER ->
            IF IsDigit(c)
            THEN LET cnt == IF t.esc_cnt = 0 THEN 1 ELSE t.esc_cnt
                 IN  [t EXCEPT !.esc_cnt = cnt,
                               !.esc_buf[cnt - 1] = t.esc_buf[cnt - 1] * 10 + (c - CH_0)]
            ELSE IF c = CH_SEMI
            THEN IF t.esc_cnt < TERM_MAX_ESC
                 THEN [t EXCEPT !.esc_cnt = t.esc_cnt + 1, !.esc_buf[t.esc_cnt] = 0]
                 ELSE t
            ELSE [on_term_esc(t, c) EXCEPT !.state = "TERM_ASCII"]

\* the slots of esc_buf that iteration reads or writes
TermSlots(t, c) ==
    CASE t.state = "TERM_ASCII" -> {}
      [] t.state = "TERM_ESC" -> IF c = CH_LBRACKET THEN { 0 } ELSE {}
      [] OTHER ->
            IF IsDigit(c) THEN { (IF t.esc_cnt = 0 THEN 1 ELSE t.esc_cnt) - 1 }
            ELSE IF c = CH_SEMI
            THEN (IF t.esc_cnt < TERM_MAX_ESC THEN { t.esc_cnt } ELSE {})
            ELSE IF c = CH_m THEN 0 .. (t.esc_cnt - 1)
            ELSE {}

\* TermShows without the test for '\r'
TermShows_cr(t, c) == t.state = "TERM_ASCII" /\ c # ESC

\* whether that iteration shows the byte: waddch(win_main, c)
TermShows(t, c) == t.state = "TERM_ASCII" /\ c # ESC /\ c # CR

\* send_text_ansi(text, len): the terminal it leaves
RECURSIVE send_text_ansi(_, _)
send_text_ansi(t, text) ==
    IF text = <<>> THEN t ELSE send_text_ansi(TermByte(t, Head(text)), Tail(text))

\* send_text_ansi(text, len): the slots of esc_buf it reads or writes
RECURSIVE send_text_slots(_, _)
send_text_slots(t, text) ==
    IF text = <<>> THEN {}
    ELSE TermSlots(t, Head(text)) \cup send_text_slots(TermByte(t, Head(text)), Tail(text))

\* send_text_ansi(text, len): the characters it adds to win_main
RECURSIVE send_text_shown(_, _)
send_text_shown(t, text) ==
    IF text = <<>> THEN <<>>
    ELSE (IF TermShows(t, Head(text)) THEN << Head(text) >> ELSE <<>>)
            \o send_text_shown(TermByte(t, Head(text)), Tail(text))

\* ------------------------------------------------------------------------
\* What is handed to libtelnet (clclite.c:899-918)
\* ------------------------------------------------------------------------

\* send_line: telnet_printf(telnet, "%.*s\n", (int)len, line), the text the
\* format produces
send_line(buf, len) == << "line", ScanText(buf, 0, len) \o <<LF>> >>

\* ------------------------------------------------------------------------
\* on_key (clclite.c:416-502)
\* ------------------------------------------------------------------------

IsSubmit(key) == key = KEY_ENTER \/ key = LF \/ key = CR

\* the edit-buffer part of on_key
KeyEdit(e, key) ==
    IF key >= KEY_MIN /\ key <= KEY_MAX
    THEN CASE key = KEY_ENTER -> editbuf_set(e, <<>>)
           [] key = KEY_BACKSPACE -> editbuf_bs(e)
           [] key = KEY_DC -> editbuf_del(e)
           [] key = KEY_LEFT -> editbuf_curleft(e)
           [] key = KEY_RIGHT -> editbuf_curright(e)
           [] key = KEY_HOME -> editbuf_home(e)
           [] key = KEY_END -> editbuf_end(e)
           [] OTHER -> [ e |-> e, fault |-> "none" ]
    ELSE IF key = LF \/ key = CR THEN editbuf_set(e, <<>>)
    ELSE editbuf_insert(e, key)

\* what on_key hands to libtelnet
KeySends(e, key) == IF IsSubmit(key) THEN << send_line(e.buf, e.size) >> ELSE <<>>

KeySendFault(e, key) == IF IsSubmit(key) THEN ScanFault(e.buf, 0, e.size) ELSE "none"

\* the viewport part of on_key
KeyWindowpos(w, key) ==
    CASE key = KEY_DOWN -> IF w + 1 > MAXLINES THEN MAXLINES ELSE w + 1
      [] key = KEY_NPAGE -> IF w + 10 > MAXLINES THEN MAXLINES ELSE w + 10
      [] key = KEY_UP -> IF w - 1 < 0 THEN 0 ELSE w - 1
      [] key = KEY_PPAGE -> IF w - 10 < 0 THEN 0 ELSE w - 10
      [] OTHER -> w

IsScrollKey(key) == key \in { KEY_DOWN, KEY_NPAGE, KEY_UP, KEY_PPAGE }

\* a stray write ends the modelled execution; after a stray read the
\* process either dies or goes on
FaultOutcomes(f) ==
    IF f = "write" THEN { TRUE } ELSE IF f = "read" THEN { TRUE, FALSE } ELSE { FALSE }

on_key(key) ==
    LET r == KeyEdit(editbuf, key)
        d == editbuf_display(r.e, COLS)
        f == Worse(KeySendFault(editbuf, key), Worse(r.fault, d.fault))
    IN  /\ editbuf' = d.e
        /\ telnet_out' = KeySends(editbuf, key)
        /\ windowpos' = KeyWindowpos(windowpos, key)
        /\ updowntoggle' = IF IsScrollKey(key) THEN 1 ELSE updowntoggle
        /\ crashed' \in FaultOutcomes(f)

\* send_naws: the sub-negotiation handed over when NAWS is enabled, the
\* two bytes of htons(COLS) then the two bytes of htons(LINES)
NawsPayload(cols, lines) ==
    << (cols \div 256) % 256, cols % 256, (lines \div 256) % 256, lines % 256 >>

\* send_naws testing the echo flag
send_naws_echo(flags, cols, lines) ==
    IF TERM_FLAG_ECHO \in flags THEN << << "naws", NawsPayload(cols, lines) >> >> ELSE <<>>

send_naws(flags, cols, lines) ==
    IF TERM_FLAG_NAWS \in flags THEN << << "naws", NawsPayload(cols, lines) >> >> ELSE <<>>

\* ------------------------------------------------------------------------
\* Text into the scrollback buffer (clclite.c:529-534, 594-603)
\* ------------------------------------------------------------------------

\* on_text_plain / on_text_ansi work on [buffer, last, beeps, writes]
StoreChar(b, c) ==
    LET r == add_char_buffer(b.buffer, c, b.last)
    IN  [ buffer |-> r.buffer, last |-> r.last, beeps |-> b.beeps,
          writes |-> b.writes \cup r.writes ]

RECURSIVE on_text_plain(_, _)
on_text_plain(b, text) ==
    IF text = <<>> THEN b ELSE on_text_plain(StoreChar(b, Head(text)), Tail(text))

\* on_text_ansi without the continue: the bell is played and stored
RECURSIVE on_text_ansi_stored(_, _)
on_text_ansi_stored(b, text) ==
    IF text = <<>> THEN b
    ELSE on_text_ansi_stored(
            IF Head(text) = BEL THEN StoreChar([b EXCEPT !.beeps = b.beeps + 1], BEL)
            ELSE StoreChar(b, Head(text)),
            Tail(text))

RECURSIVE on_text_ansi(_, _)
on_text_ansi(b, text) ==
    IF text = <<>> THEN b
    ELSE on_text_ansi(
            IF Head(text) = BEL THEN [b EXCEPT !.beeps = b.beeps + 1]
            ELSE StoreChar(b, Head(text)),
            Tail(text))

\* ------------------------------------------------------------------------
\* print_buffer and redraw_display (clclite.c:180-198, 341-379)
\* ------------------------------------------------------------------------

\* print_buffer(buffer, startline, endline): the rows it sends to
\* send_text_ansi, in order; row MAXLINES is past the array
PrintRows(startline, endline) ==
    LET s == IF startline < 0 THEN 0 ELSE startline
        e == IF endline > MAXLINES THEN MAXLINES ELSE endline
    IN  IF s > endline THEN <<>> ELSE [k \in 1 .. (e - s + 1) |-> s + k - 1]

\* the terminal after the rows were rendered; past is what the memory past
\* the array reads as
RECURSIVE RenderRows(_, _, _, _)
RenderRows(t, buffer, rows, past) ==
    IF rows = <<>> THEN t
    ELSE RenderRows(send_text_ansi(t, IF Head(rows) \in DOMAIN buffer THEN buffer[Head(rows)] ELSE past),
                    buffer, Tail(rows), past)

print_buffer(t, buffer, startline, endline, past) ==
    [ terminal |-> RenderRows(t, buffer, PrintRows(startline, endline), past),
      returned |-> IF (IF startline < 0 THEN 0 ELSE startline) > endline THEN 1 ELSE 0,
      fault |-> IF \E k \in 1 .. Len(PrintRows(startline, endline)) :
                      PrintRows(startline, endline)[k] \notin Rows
                THEN "read" ELSE "none" ]

\* the viewport follows the last line unless the user scrolled
FollowLast(w, toggle, lastline, lines) ==
    IF toggle = 0
    THEN (IF lastline - lines + 2 < 0 THEN 0 ELSE lastline - lines + 2)
    ELSE w

\* what the bytes past sbuffer may read as
PastTexts == { <<>>, <<CH_x>>, <<ESC>> }

\* redraw_display; ok: the TIOCGWINSZ ioctl succeeded and reported c x l
redraw_display(ok, c, l, past) ==
    IF ~ok
    THEN /\ telnet_out' = <<>>
         /\ UNCHANGED <<COLS, LINES, editbuf, windowpos, updowntoggle, terminal, crashed>>
    ELSE LET d == editbuf_display(editbuf, c)
             w == FollowLast(windowpos, updowntoggle, last, l)
             p == print_buffer(terminal, sbuffer, w, w + l - 3, past)
         IN  /\ COLS' = c
             /\ LINES' = l
             /\ telnet_out' = IF running # 0 THEN send_naws(terminal.flags, c, l) ELSE <<>>
             /\ editbuf' = d.e
             /\ windowpos' = w
             /\ updowntoggle' = IF p.returned = 0 THEN 0 ELSE updowntoggle
             /\ terminal' = p.terminal
             /\ crashed' \in FaultOutcomes(Worse(d.fault, p.fault))

\* ------------------------------------------------------------------------
\* telnet_event (clclite.c:850-897)
\* ------------------------------------------------------------------------

\* the flags after a negotiation event
EventFlags(flags, e) ==
    CASE e.type = "WILL" /\ e.telopt = TELNET_TELOPT_ECHO -> flags \ { TERM_FLAG_ECHO }
      [] e.type = "WONT" /\ e.telopt = TELNET_TELOPT_ECHO -> flags \cup { TERM_FLAG_ECHO }
      [] e.type = "DO" /\ e.telopt = TELNET_TELOPT_NAWS -> flags \cup { TERM_FLAG_NAWS }
      [] OTHER -> flags

\* the events of the negotiation: WILL, WONT, DO, DONT of an option
telnet_event_neg(e) ==
    /\ terminal' = [terminal EXCEPT !.flags = EventFlags(terminal.flags, e)]
    /\ telnet_out' = IF e.type = "DO" /\ e.telopt = TELNET_TELOPT_NAWS
                     THEN send_naws(EventFlags(terminal.flags, e), COLS, LINES)
                     ELSE <<>>

\* TELNET_EV_DATA: the application data of the event
telnet_event_data(text) ==
    LET r == on_text_ansi([buffer |-> sbuffer, last |-> last, beeps |-> beeps, writes |-> {}], text)
    IN  /\ sbuffer' = r.buffer
        /\ last' = r.last
        /\ beeps' = r.beeps
        /\ wr' = r.writes

\* ------------------------------------------------------------------------
\* SpecBuf: the buffer driven call by call, each call given the index the
\* previous one returned.  The k-th character fed is a printable character
\* not fed before, a newline or a NUL.
\* ------------------------------------------------------------------------

FreshChar == CH_A + Len(hist)

CharInputs == { FreshChar, LF, NUL }

\* the lengths of the strings add_line_buffer is called with: around the cut
LineLens == { 0, 1, MAX_LINE_LENGTH - 2, MAX_LINE_LENGTH - 1, MAX_LINE_LENGTH }

InitBuf ==
    /\ sbuffer = init_buffer
    /\ last = 0
    /\ wr = {}
    /\ hist = <<>>
    /\ nline = 0

AppendChar ==
    /\ Len(hist) + nline < MaxAppends
    /\ \E c \in CharInputs :
          LET r == add_char_buffer(sbuffer, c, last)
          IN  /\ sbuffer' = r.buffer
              /\ last' = r.last
              /\ wr' = r.writes
              /\ hist' = Append(hist, c)
    /\ UNCHANGED <<nline, editvars, scrvars, termvars, othervars>>

AppendLine ==
    /\ Len(hist) + nline < MaxAppends
    /\ nline < MaxLineCalls
    /\ \E n \in LineLens :
          LET r == add_line_buffer(sbuffer, [i \in 1 .. n |-> FreshChar], last)
          IN  /\ sbuffer' = r.buffer
              /\ last' = r.last
              /\ wr' = r.writes
    /\ nline' = nline + 1
    /\ UNCHANGED <<hist, editvars, scrvars, termvars, othervars>>

\* ------------------------------------------------------------------------
\* SpecEdit: keys reaching on_key one at a time
\* ------------------------------------------------------------------------

\* the keys typed: two characters, the submit keys and the editing keys
EditKeys == { NUL, CH_a, LF, CR, KEY_ENTER, KEY_BACKSPACE, KEY_DC, KEY_LEFT,
              KEY_RIGHT, KEY_HOME, KEY_END }

\* terminal sizes the session starts with (scaled like the arrays)
ColsSet == { 3 }

LinesSet == { 4 }

InitEdit ==
    /\ editbuf = EditbufZero
    /\ COLS \in ColsSet
    /\ LINES \in LinesSet
    /\ windowpos = 0
    /\ updowntoggle = 0
    /\ telnet_out = <<>>
    /\ crashed = FALSE
    /\ nkeys = 0

Key ==
    /\ ~crashed
    /\ nkeys < MaxKeys
    /\ \E key \in EditKeys : on_key(key)
    /\ nkeys' = nkeys + 1
    /\ UNCHANGED <<bufvars, scrvars, termvars, othervars>>

\* ------------------------------------------------------------------------
\* SpecTerm: send_text_ansi called with one text after another
\* ------------------------------------------------------------------------

\* the parameters of the escape runs fed: none, 0, 33, 99
ParamStrs == { <<>>, <<CH_0>>, <<CH_0 + 3, CH_0 + 3>>, <<CH_0 + 9, CH_0 + 9>> }

\* the lists of 1 .. n parameters
RECURSIVE ParamLists(_)
ParamLists(n) ==
    IF n = 0 THEN {}
    ELSE { <<p>> : p \in ParamStrs }
            \cup { Append(ps, p) : ps \in ParamLists(n - 1), p \in ParamStrs }

\* the parameters joined by ';'
RECURSIVE JoinParams(_)
JoinParams(ps) ==
    IF Len(ps) = 1 THEN ps[1]
    ELSE ps[1] \o <<CH_SEMI>> \o JoinParams(Tail(ps))

\* ESC [ p1 ; ... ; pk cmd
RunText(ps, cmd) == <<ESC, CH_LBRACKET>> \o JoinParams(ps) \o <<cmd>>

CmdBytes == { CH_m, CH_H }

\* runs of up to one parameter more than the list holds
RunTexts == { RunText(ps, cmd) : ps \in ParamLists(TERM_MAX_ESC + 1), cmd \in CmdBytes }

\* single bytes: a text may end anywhere in a run
ByteTexts == { <<c>> : c \in { ESC, CH_LBRACKET, CH_0 + 3, CH_SEMI, CH_m, CH_x, CR } }

InitTerm ==
    /\ terminal = TerminalInit
    /\ ntexts = 0

SendText(text) == terminal' = send_text_ansi(terminal, text)

SendRun ==
    /\ ntexts < MaxTexts
    /\ \E text \in RunTexts : SendText(text)
    /\ ntexts' = ntexts + 1
    /\ UNCHANGED <<bufvars, editvars, scrvars, othervars>>

SendBytes ==
    /\ ntexts < MaxTexts
    /\ \E text \in ByteTexts : SendText(text)
    /\ ntexts' = ntexts + 1
    /\ UNCHANGED <<bufvars, editvars, scrvars, othervars>>

\* ------------------------------------------------------------------------
\* SpecRecv: application data arriving in chunks
\* ------------------------------------------------------------------------

Hello == << CH_H, CH_e, CH_l, CH_l, CH_o >>

HelloCRLF == Hello \o << CR, LF >>

\* the chunks delivered: one or two of bell, newline and a letter, and the
\* greeting whole, in two parts or with a bell inside
SmallBytes == { BEL, LF, CH_x }

Chunks ==
    { <<c>> : c \in SmallBytes } \cup { <<c, d>> : c \in SmallBytes, d \in SmallBytes }
        \cup { HelloCRLF, << CH_H, CH_e, CH_l >>, << CH_l, CH_o, CR, LF >>,
               << CH_H, CH_e, BEL, CH_l, CH_l, CH_o, CR, LF >> }

InitRecv ==
    /\ beeps = 0
    /\ rx = <<>>
    /\ running = 1

EvData ==
    /\ ~crashed
    /\ \E text \in Chunks :
          /\ Len(rx) + Len(text) <= MaxRecv
          /\ telnet_event_data(text)
          /\ rx' = rx \o text
    /\ UNCHANGED <<hist, nline, editvars, scrvars, termvars, negvars, loopvars>>

\* ------------------------------------------------------------------------
\* SpecNeg: the peer negotiating options and the terminal being resized
\* ------------------------------------------------------------------------

NegEvents ==
    { [type |-> ty, telopt |-> o] :
        ty \in { "WILL", "WONT", "DO", "DONT" },
        o \in { TELNET_TELOPT_ECHO, TELNET_TELOPT_NAWS, TELNET_TELOPT_ZMP } }

\* the sizes the terminal is resized to (scaled like the arrays)
ResizeCols == { 2, 3, 258 }

ResizeLines == { 4, 5 }

InitNeg ==
    /\ ev = [type |-> "none", telopt |-> 0]
    /\ peer_do_naws = FALSE

EvNeg ==
    /\ ~crashed
    /\ \E e \in NegEvents :
          /\ telnet_event_neg(e)
          /\ ev' = e
          /\ peer_do_naws' = (peer_do_naws \/ (e.type = "DO" /\ e.telopt = TELNET_TELOPT_NAWS))
    /\ UNCHANGED <<bufvars, scrvars, editbuf, windowpos, updowntoggle, crashed, nkeys,
                   ntexts, recvvars, loopvars>>

\* the main loop acting on have_sigwinch: redraw_display
Resize ==
    /\ ~crashed
    /\ running # 0
    /\ \E ok \in BOOLEAN, c \in ResizeCols, l \in ResizeLines, past \in PastTexts :
          /\ redraw_display(ok, c, l, past)
          /\ ev' = [type |-> IF ok THEN "WINCH" ELSE "WINCH_FAILED", telopt |-> 0]
    /\ UNCHANGED <<bufvars, nkeys, ntexts, recvvars, loopvars, peer_do_naws>>


\* ------------------------------------------------------------------------
\* do_send (clclite.c:382-414)
\* ------------------------------------------------------------------------

\* one turn of the while loop of do_send; r is what send() returned and
\* the errno it left.  The test of the failure branch is on ret, as in the
\* code.
do_send(s, r) ==
    IF r.ret = -1
    THEN IF r.ret # EAGAIN /\ r.ret # EINTR
         THEN [ snd |-> s, exit |-> 1, shutdown |-> << "endwin", "endwin" >> ]
         ELSE [ snd |-> s, exit |-> -1, shutdown |-> <<>> ]
    ELSE IF r.ret = 0
    THEN [ snd |-> s, exit |-> 0, shutdown |-> << "endwin", "endwin" >> ]
    ELSE [ snd |-> [s EXCEPT !.len = s.len - r.ret, !.sent_bytes = s.sent_bytes + r.ret],
           exit |-> -1, shutdown |-> <<>> ]

\* what send() may return when asked to write len bytes
SendResults(len) ==
    { [ret |-> -1, errno |-> e] : e \in { EAGAIN, EINTR, EPIPE } }
        \cup { [ret |-> n, errno |-> 0] : n \in 0 .. len }

\* TELNET_EV_SEND: libtelnet hands do_send a frame of n bytes
SendFrame ==
    /\ exit_code = -1
    /\ snd.len = 0
    /\ \E n \in 1 .. MaxFrame :
          /\ snd.sent_bytes + n <= MaxSent
          /\ snd' = [snd EXCEPT !.len = n]
    /\ UNCHANGED <<bufvars, editvars, scrvars, termvars, recvvars, negvars, running, pc,
                   have_sigwinch, have_sigint, revents, exit_code, shutdown, nsig, nrecv>>

\* one call of send() and what do_send does with its result
SendCall ==
    /\ exit_code = -1
    /\ snd.len > 0
    /\ snd.tries < MaxSendCalls
    /\ \E r \in SendResults(snd.len) :
          LET d == do_send(snd, r)
          IN  /\ snd' = [d.snd EXCEPT !.tries = snd.tries + 1, !.ret = r.ret, !.errno = r.errno]
              /\ exit_code' = d.exit
              /\ shutdown' = d.shutdown
              /\ pc' = IF d.exit = -1 THEN pc ELSE "exited"
    /\ UNCHANGED <<bufvars, editvars, scrvars, termvars, recvvars, negvars, running,
                   have_sigwinch, have_sigint, revents, nsig, nrecv>>

\* ------------------------------------------------------------------------
\* main: the loop (clclite.c:746-828) and the way out (clclite.c:830-845)
\* ------------------------------------------------------------------------

\* the keys, the data, the warnings and the sizes SpecLoop draws from
LoopKeys == { CH_a, KEY_DOWN, KEY_UP }

LoopChunks == { << CH_x, LF >>, << ESC, CH_LBRACKET >> }

WarningMsgs == { << CH_x >>, << LF, ESC, CH_LBRACKET, CH_0 + 3, CH_0 + 3, CH_m >> }

LoopCols == { 3 }

LoopLines == { 4, 5 }

progvars == <<bufvars, editvars, scrvars, termvars, recvvars, negvars>>

\* handle_signal: the handler only sets the flag; a signal that arrives
\* while poll waits makes poll return -1 with EINTR, and what revents holds
\* then is not specified: what the last poll left or nothing
handle_signal(sig) ==
    /\ have_sigwinch' = IF sig = "SIGWINCH" THEN 1 ELSE have_sigwinch
    /\ have_sigint' = IF sig = "SIGINT" THEN 1 ELSE have_sigint
    /\ IF pc = "poll_wait"
       THEN pc' = "winch" /\ revents' \in { revents, {} }
       ELSE UNCHANGED <<pc, revents>>

Signal ==
    /\ ~crashed
    /\ pc \notin { "exited", "final" }
    /\ nsig < MaxSignals
    /\ \E sig \in { "SIGWINCH", "SIGINT" } : handle_signal(sig)
    /\ nsig' = nsig + 1
    /\ UNCHANGED <<progvars, running, exit_code, shutdown, nrecv, snd>>

\* what the descriptors may report: the keyboard while keys are left to
\* type, the socket while the peer has something left to say
Readable ==
    { r \in SUBSET { "key", "sock" } :
        /\ r # {}
        /\ ("key" \in r => nkeys < MaxLoopKeys)
        /\ ("sock" \in r => nrecv < MaxLoopRecv) }

\* while (running): poll(fds, 2, -1) returns at once, or waits, or fails
\* with an errno other than EAGAIN and EINTR
PollCall ==
    /\ ~crashed
    /\ pc = "poll"
    /\ \/ /\ running = 0
          /\ pc' = "final"
          /\ UNCHANGED <<revents, exit_code, shutdown>>
       \/ /\ running # 0
          /\ \E r \in Readable : revents' = r
          /\ pc' = "winch"
          /\ UNCHANGED <<exit_code, shutdown>>
       \/ /\ running # 0
          /\ pc' = "poll_wait"
          /\ UNCHANGED <<revents, exit_code, shutdown>>
       \/ /\ running # 0
          /\ pc' = "exited"
          /\ exit_code' = 1
          /\ shutdown' = << "endwin", "endwin" >>
          /\ UNCHANGED revents
    /\ UNCHANGED <<progvars, running, have_sigwinch, have_sigint, nsig, nrecv, snd>>

\* poll returns because a descriptor became readable
PollWake ==
    /\ ~crashed
    /\ pc = "poll_wait"
    /\ \E r \in Readable : revents' = r
    /\ pc' = "winch"
    /\ UNCHANGED <<progvars, running, have_sigwinch, have_sigint, exit_code, shutdown,
                   nsig, nrecv, snd>>

\* if (have_sigwinch)
CheckWinch ==
    /\ ~crashed
    /\ pc = "winch"
    /\ pc' = IF have_sigwinch # 0 THEN "winch_clear" ELSE "int"
    /\ UNCHANGED <<progvars, running, have_sigwinch, have_sigint, revents, exit_code,
                   shutdown, nsig, nrecv, snd>>

\* have_sigwinch = 0;
ClearWinch ==
    /\ ~crashed
    /\ pc = "winch_clear"
    /\ have_sigwinch' = 0
    /\ pc' = "redraw"
    /\ UNCHANGED <<progvars, running, have_sigint, revents, exit_code, shutdown, nsig,
                   nrecv, snd>>

\* redraw_display();
Redraw ==
    /\ ~crashed
    /\ pc = "redraw"
    /\ \E ok \in BOOLEAN, c \in LoopCols, l \in LoopLines, past \in PastTexts :
          /\ redraw_display(ok, c, l, past)
          /\ ev' = [type |-> IF ok THEN "WINCH" ELSE "WINCH_FAILED", telopt |-> 0]
    /\ pc' = "int"
    /\ UNCHANGED <<bufvars, nkeys, ntexts, recvvars, peer_do_naws, running, have_sigwinch,
                   have_sigint, revents, exit_code, shutdown, nsig, nrecv, snd>>

\* if (have_sigint) exit(0); exit runs cleanup, registered with atexit,
\* which calls endwin
CheckInt ==
    /\ ~crashed
    /\ pc = "int"
    /\ IF have_sigint # 0
       THEN /\ pc' = "exited"
            /\ exit_code' = 0
            /\ shutdown' = << "endwin" >>
       ELSE /\ pc' = "input"
            /\ UNCHANGED <<exit_code, shutdown>>
    /\ UNCHANGED <<progvars, running, have_sigwinch, have_sigint, revents, nsig, nrecv, snd>>

\* on_key's return value: full_refresh
full_refresh(key) == IF IsScrollKey(key) THEN 1 ELSE 0

\* if (fds[0].revents & POLLIN): wgetch, on_key, and continue when on_key
\* returned 0
Input ==
    /\ ~crashed
    /\ pc = "input"
    /\ IF "key" \notin revents
       THEN /\ pc' = "recv"
            /\ UNCHANGED <<editvars>>
       ELSE /\ nkeys < MaxLoopKeys
            /\ \E key \in LoopKeys \cup { ERR } :
                  IF key = ERR
                  THEN /\ pc' = "recv"
                       /\ UNCHANGED <<editbuf, windowpos, updowntoggle, telnet_out, crashed>>
                  ELSE /\ on_key(key)
                       /\ pc' = IF full_refresh(key) = 0 THEN "poll" ELSE "recv"
            /\ nkeys' = nkeys + 1
    /\ UNCHANGED <<bufvars, scrvars, termvars, recvvars, negvars, running, have_sigwinch,
                   have_sigint, revents, exit_code, shutdown, nsig, nrecv, snd>>

\* TELNET_EV_WARNING: the label (8 bytes of "\nWARNING:"), the message and
\* a newline go through on_text_plain
WarningLabel == Prefix(<< LF, CH_W, CH_A, CH_R, CH_N, CH_I, CH_N, CH_G, CH_COLON >>, 8)

telnet_event_warning(msg) ==
    LET b0 == [buffer |-> sbuffer, last |-> last, beeps |-> beeps, writes |-> {}]
        b1 == on_text_plain(b0, WarningLabel)
        b2 == on_text_plain(b1, msg)
        b3 == on_text_plain(b2, << LF >>)
    IN  /\ sbuffer' = b3.buffer
        /\ last' = b3.last
        /\ wr' = b3.writes
        /\ UNCHANGED beeps

\* if (fds[1].revents & POLLIN): recv, and telnet_recv on what arrived
Recv ==
    /\ ~crashed
    /\ pc = "recv"
    /\ IF "sock" \notin revents
       THEN /\ pc' = "flush"
            /\ UNCHANGED <<sbuffer, last, wr, recvvars, running, exit_code, shutdown, nrecv>>
       ELSE /\ nrecv < MaxLoopRecv
            /\ nrecv' = nrecv + 1
            /\ \/ /\ pc' = "flush"    \* ret == -1, errno EAGAIN or EINTR
                  /\ UNCHANGED <<sbuffer, last, wr, recvvars, running, exit_code, shutdown>>
               \/ /\ pc' = "exited"   \* ret == -1, another errno: endwin, return 1
                  /\ exit_code' = 1
                  /\ shutdown' = << "endwin", "endwin" >>
                  /\ UNCHANGED <<sbuffer, last, wr, recvvars, running>>
               \/ /\ pc' = "flush"    \* ret == 0: the peer closed
                  /\ running' = 0
                  /\ UNCHANGED <<sbuffer, last, wr, recvvars, exit_code, shutdown>>
               \/ /\ pc' = "flush"    \* application data
                  /\ \E text \in LoopChunks :
                        /\ telnet_event_data(text)
                        /\ rx' = rx \o text
                  /\ UNCHANGED <<running, exit_code, shutdown>>
               \/ /\ pc' = "flush"    \* a warning of libtelnet
                  /\ \E msg \in WarningMsgs : telnet_event_warning(msg)
                  /\ UNCHANGED <<rx, running, exit_code, shutdown>>
    /\ UNCHANGED <<hist, nline, editvars, scrvars, termvars, negvars, have_sigwinch,
                   have_sigint, revents, nsig, snd>>

\* the end of the loop body: the viewport follows the last line unless the
\* user scrolled, then paint_banner and print_buffer
flush_output(past) ==
    LET w == FollowLast(windowpos, updowntoggle, last, LINES)
        p == print_buffer(terminal, sbuffer, w, w + LINES - 3, past)
    IN  /\ windowpos' = w
        /\ updowntoggle' = IF p.returned = 0 THEN 0 ELSE updowntoggle
        /\ terminal' = p.terminal
        /\ crashed' \in FaultOutcomes(p.fault)

Flush ==
    /\ ~crashed
    /\ pc = "flush"
    /\ \E past \in PastTexts : flush_output(past)
    /\ pc' = "poll"
    /\ UNCHANGED <<bufvars, editbuf, telnet_out, nkeys, scrvars, ntexts, recvvars, negvars,
                   running, have_sigwinch, have_sigint, revents, exit_code, shutdown,
                   nsig, nrecv, snd>>

\* after the loop: sock = -1, autobanner = 1, paint_banner (which now
\* says disconnected), wgetch, endwin, return 0; cleanup calls endwin again
Final ==
    /\ ~crashed
    /\ pc = "final"
    /\ pc' = "exited"
    /\ exit_code' = 0
    /\ shutdown' = << "paint_banner disconnected", "wgetch", "endwin", "endwin" >>
    /\ UNCHANGED <<progvars, running, have_sigwinch, have_sigint, revents, nsig, nrecv, snd>>

\* ------------------------------------------------------------------------
\* SpecLoop: the main loop with keys, data, warnings and signals arriving;
\* SpecSend: do_send writing the frames libtelnet hands it
\* ------------------------------------------------------------------------

InitLoop ==
    /\ pc = "poll"
    /\ have_sigwinch = 0
    /\ have_sigint = 0
    /\ revents = {}
    /\ exit_code = -1
    /\ shutdown = <<>>
    /\ nsig = 0
    /\ nrecv = 0
    /\ snd = [len |-> 0, sent_bytes |-> 0, tries |-> 0, ret |-> 0, errno |-> 0]

Init == InitBuf /\ InitEdit /\ InitTerm /\ InitRecv /\ InitNeg /\ InitLoop

NextBuf == AppendChar \/ AppendLine

SpecBuf == Init /\ [][NextBuf]_vars

NextEdit == Key \/ Resize

SpecEdit == Init /\ [][NextEdit]_vars

NextTerm == SendRun \/ SendBytes

SpecTerm == Init /\ [][NextTerm]_vars

NextRecv == EvData

SpecRecv == Init /\ [][NextRecv]_vars

NextNeg == EvNeg \/ Resize

SpecNeg == Init /\ [][NextNeg]_vars

NextLoop ==
    \/ Signal \/ PollCall \/ PollWake \/ CheckWinch \/ ClearWinch \/ Redraw
    \/ CheckInt \/ Input \/ Recv \/ Flush \/ Final

SpecLoop == Init /\ [][NextLoop]_vars

NextSend == SendFrame \/ SendCall

SpecSend == Init /\ [][NextSend]_vars

\* ------------------------------------------------------------------------
\* Properties of the scrollback buffer
\* ------------------------------------------------------------------------

\* C1: after any sequence of add_char_buffer / add_line_buffer calls from
\* the empty buffer, the last-line index is in 0..MAXLINES, the buffer
\* holds at most MAXLINES lines, every cell written lies inside the
\* MAXLINES x MAX_LINE_LENGTH array and every stored line has at most
\* MAX_LINE_LENGTH-1 characters before its terminator.
BufferWithinBounds ==
    /\ last \in 0 .. MAXLINES
    /\ DOMAIN sbuffer = Rows
    /\ Cardinality({ y \in DOMAIN sbuffer : sbuffer[y] # <<>> }) <= MAXLINES
    /\ \A w \in wr : w[1] \in Rows /\ w[2] \in 0 .. (MAX_LINE_LENGTH - 1)
    /\ \A y \in DOMAIN sbuffer : Len(sbuffer[y]) <= MAX_LINE_LENGTH - 1

\* C1 witness: a character was appended to a row that was already full, so
\* the clamp of x acted and the last cell of the row was written.
FullRowAppended ==
    /\ Len(hist) > MAX_LINE_LENGTH - 1
    /\ \A i \in 1 .. Len(hist) : hist[i] \notin { LF, NUL }
    /\ Len(sbuffer[0]) = MAX_LINE_LENGTH - 1
    /\ <<0, MAX_LINE_LENGTH - 1>> \in wr

\* hist is n lines, each one printable character followed by a newline
SingleCharLines(h) ==
    /\ Len(h) % 2 = 0
    /\ \A i \in 1 .. Len(h) : IF i % 2 = 0 THEN h[i] = LF ELSE h[i] \notin { LF, NUL }

\* C2: after n distinct single-character lines the buffer holds the last
\* min(n, MAXLINES) of them, in arrival order from row 0: with n > MAXLINES
\* the lines n-MAXLINES+1 .. n, the oldest evicted first.
FifoEviction ==
    (nline = 0 /\ SingleCharLines(hist)) =>
        LET n == Len(hist) \div 2
            kept == Min(n, MAXLINES)
            first == n - kept
        IN  /\ last = kept
            /\ \A i \in Rows :
                  sbuffer[i] = IF i < kept THEN << hist[2 * (first + i + 1) - 1], LF >> ELSE <<>>

\* C2 witness: MAXLINES+1 single-character lines were appended, so exactly
\* the first one has been evicted.
OneLineEvicted ==
    /\ nline = 0
    /\ SingleCharLines(hist)
    /\ Len(hist) = 2 * (MAXLINES + 1)
    /\ sbuffer[0] = << hist[3], LF >>

\* ------------------------------------------------------------------------
\* Properties of the edit buffer
\* ------------------------------------------------------------------------

\* C3: after every Line Editor operation, 0 <= editbuf.pos <= editbuf.size.
\* (Stated as the claim states it; editbuf_del breaks it.)
CursorWithinLength == 0 <= editbuf.pos /\ editbuf.pos <= editbuf.size

\* C4: an insert on an editor that already holds EDITBUF_MAX-1 characters
\* (the 1000 of the claim) changes neither the contents, the length nor the
\* cursor, so the length never exceeds EDITBUF_MAX-1.
\* (Stated as the claim states it; editbuf_insert breaks it.)
InsertAtCapacityIsNoOp ==
    [][ \A ch \in { NUL, CH_a } :
          (/\ editbuf.size = EDITBUF_MAX - 1
           /\ editbuf.pos <= editbuf.size
           /\ ~crashed
           /\ on_key(ch))
          => (/\ editbuf'.buf = editbuf.buf
              /\ editbuf'.size = editbuf.size
              /\ editbuf'.pos = editbuf.pos) ]_vars

\* the editor's current length characters, in order
Content(e) == [i \in 1 .. Min(e.size, EDITBUF_MAX) |-> e.buf[i - 1]]

\* C9: on a submit key exactly one frame is handed to the negotiator, the
\* editor's current length characters in order followed by one newline.
\* (Stated as the claim states it; send_line breaks it.)
SubmitSendsContent ==
    [][ \A key \in { KEY_ENTER, LF, CR } :
          (~crashed /\ on_key(key))
          => telnet_out' = << << "line", Content(editbuf) \o <<LF>> >> >> ]_vars

\* ------------------------------------------------------------------------
\* Properties of the renderer
\* ------------------------------------------------------------------------

\* C5: the three bytes ESC [ m, fed in the Plain state with any active
\* style, leave the style register at the default.
\* (Stated as the claim states it; send_text_ansi breaks it.)
EscBracketMResets ==
    [][ (terminal.state = "TERM_ASCII" /\ SendText(<<ESC, CH_LBRACKET, CH_m>>))
          => terminal'.color = TERM_COLOR_DEFAULT ]_vars

\* the number a run of digits writes
RECURSIVE Decimal(_)
Decimal(digits) ==
    IF digits = <<>> THEN 0
    ELSE 10 * Decimal(SubSeq(digits, 1, Len(digits) - 1)) + (digits[Len(digits)] - CH_0)

\* the claim's rule for one parameter
ClaimStyle(style, p) ==
    CASE p = 0 -> TERM_COLOR_DEFAULT
      [] p \in 31 .. 37 -> p - 30
      [] OTHER -> style

\* the parameters applied left to right
RECURSIVE ClaimStyleAll(_, _)
ClaimStyleAll(style, ps) ==
    IF ps = <<>> THEN style
    ELSE ClaimStyleAll(ClaimStyle(style, Decimal(Head(ps))), Tail(ps))

\* parameters written with at least one digit: 0, 1, 30, 31, 33, 37, 38, 99
DigitStrs ==
    { <<CH_0>>, <<CH_0 + 1>>, <<CH_0 + 3, CH_0>>, <<CH_0 + 3, CH_0 + 1>>,
      <<CH_0 + 3, CH_0 + 3>>, <<CH_0 + 3, CH_0 + 7>>, <<CH_0 + 3, CH_0 + 8>>,
      <<CH_0 + 9, CH_0 + 9>> }

\* the lists of 1 .. n of them
RECURSIVE DigitLists(_)
DigitLists(n) ==
    IF n = 0 THEN {}
    ELSE { <<p>> : p \in DigitStrs }
            \cup { Append(ps, p) : ps \in DigitLists(n - 1), p \in DigitStrs }

\* C6: in every reachable Plain state, a run ESC [ p1 ; ... ; pk m of
\* 1 <= k <= TERM_MAX_ESC parameters, each with at least one digit, leaves
\* the style the parameters give when applied left to right (0 resets,
\* 31..37 select p-30, anything else is ignored), and a command byte other
\* than m leaves the style unchanged; either way the run ends in Plain.
EscRunAppliesParams ==
    terminal.state = "TERM_ASCII" =>
        \A ps \in DigitLists(TERM_MAX_ESC) :
            LET m == send_text_ansi(terminal, RunText(ps, CH_m))
                h == send_text_ansi(terminal, RunText(ps, CH_H))
            IN  /\ m.color = ClaimStyleAll(terminal.color, ps)
                /\ h.color = terminal.color
                /\ m.state = "TERM_ASCII"
                /\ h.state = "TERM_ASCII"

\* C6 witness: a run of TERM_MAX_ESC parameters, 99 first and 33 last, was
\* applied by m and set style 3.
FullRunApplied ==
    /\ terminal.state = "TERM_ASCII"
    /\ terminal.esc_cnt = TERM_MAX_ESC
    /\ terminal.esc_buf[0] = 99
    /\ terminal.esc_buf[TERM_MAX_ESC - 1] = 33
    /\ terminal.color = 3

\* ------------------------------------------------------------------------
\* Properties of the session
\* ------------------------------------------------------------------------

NBells(s) == Cardinality({ i \in 1 .. Len(s) : s[i] = BEL })

NotBell(c) == c # BEL

\* the characters appended one after the other, from the empty buffer
RECURSIVE AppendedInOrder(_, _, _)
AppendedInOrder(buffer, lastline, text) ==
    IF text = <<>> THEN [ buffer |-> buffer, last |-> lastline ]
    ELSE LET r == add_char_buffer(buffer, Head(text), lastline)
         IN  AppendedInOrder(r.buffer, r.last, Tail(text))

\* C7: every bell byte of the application data triggers exactly one alert
\* and is never stored; every other byte is appended in order: beep() was
\* called once per bell received, no row holds a bell, and the buffer is
\* what appending the other bytes in order gives.
BellsAlertNotStored ==
    /\ beeps = NBells(rx)
    /\ \A y \in DOMAIN sbuffer : \A i \in 1 .. Len(sbuffer[y]) : sbuffer[y][i] # BEL
    /\ LET r == AppendedInOrder(init_buffer, 0, SelectSeq(rx, NotBell))
       IN  sbuffer = r.buffer /\ last = r.last

\* C7 witness: a bell arrived in the middle of a line; it was played and
\* the line was stored without it.
BellInsideLine ==
    /\ rx = << CH_H, CH_e, BEL, CH_l, CH_l, CH_o, CR, LF >>
    /\ beeps = 1
    /\ sbuffer[0] = HelloCRLF

\* C8: handling DO NAWS hands over exactly one dimension report, width
\* then height; once the peer has asked, every redraw for a resize hands
\* over exactly one more, with the new dimensions.
NawsReportOnDoAndResize ==
    /\ (ev.type = "DO" /\ ev.telopt = TELNET_TELOPT_NAWS)
          => telnet_out = << << "naws", NawsPayload(COLS, LINES) >> >>
    /\ (ev.type = "WINCH" /\ peer_do_naws)
          => telnet_out = << << "naws", NawsPayload(COLS, LINES) >> >>

\* C8 witness: after DO NAWS the terminal was resized to 258 columns and
\* the report of that size was handed over.
ResizeReported ==
    /\ peer_do_naws
    /\ ev.type = "WINCH"
    /\ COLS = 258
    /\ telnet_out = << << "naws", << 1, 2, 0, LINES >> >> >>

EndsWithGreeting(t) ==
    /\ Len(t) >= Len(HelloCRLF)
    /\ SubSeq(t, Len(t) - Len(HelloCRLF) + 1, Len(t)) = HelloCRLF
    /\ (Len(t) = Len(HelloCRLF) \/ t[Len(t) - Len(HelloCRLF)] = LF)

NeverWaitsWhilePending ==
    ~(pc = "poll_wait" /\ have_sigwinch = 1)

\* C12: when the main loop observes the interrupt request, the process
\* goes the way of a clean peer close: the banner is repainted in the
\* disconnected state before the display is released, and the exit code
\* is 0.
\* (Stated as the claim states it; exit(0) is called inside the loop.)
SigintOrderlyShutdown ==
    (pc = "exited" /\ have_sigint = 1 /\ exit_code = 0) =>
        \E i \in DOMAIN shutdown, j \in DOMAIN shutdown :
            /\ i < j
            /\ shutdown[i] = "paint_banner disconnected"
            /\ shutdown[j] = "endwin"

\* C13: a send() that fails with EAGAIN or EINTR is retried with the same
\* remaining bytes and the process keeps running.
\* (Stated as the claim states it; do_send tests ret, which is -1, against
\* the two codes.)
TransientSendRetried ==
    [][ (snd'.tries = snd.tries + 1 /\ snd'.ret = -1 /\ snd'.errno \in { EAGAIN, EINTR })
          => (exit_code' = -1 /\ snd'.len = snd.len) ]_vars

\* ------------------------------------------------------------------------
\* Properties of the renderer's parameter list
\* ------------------------------------------------------------------------

\* lists of exactly n parameters, each 3 or 99
RECURSIVE FullLists(_)
FullLists(n) ==
    IF n = 0 THEN { <<>> }
    ELSE { Append(ps, p) : ps \in FullLists(n - 1), p \in { <<CH_0 + 3>>, <<CH_0 + 9, CH_0 + 9>> } }

\* C14: esc_cnt never exceeds TERM_MAX_ESC and every read or write of
\* esc_buf, by any text fed from any reachable state, uses a slot in
\* 0..TERM_MAX_ESC-1; after TERM_MAX_ESC parameters a further ';' creates
\* no entry and the digits that follow accumulate into the last slot.
EscListWithinBounds ==
    /\ terminal.esc_cnt >= 0
    /\ terminal.esc_cnt <= TERM_MAX_ESC
    /\ \A text \in RunTexts \cup ByteTexts :
          send_text_slots(terminal, text) \subseteq EscSlots
    /\ terminal.state = "TERM_ASCII" =>
          \A ps \in FullLists(TERM_MAX_ESC), extra \in { <<CH_0 + 7>>, <<CH_0, CH_0 + 1>> } :
             LET t == send_text_ansi(terminal, RunText(Append(ps, extra), CH_H))
             IN  /\ t.esc_cnt = TERM_MAX_ESC
                 /\ \A i \in 1 .. (TERM_MAX_ESC - 1) : t.esc_buf[i - 1] = Decimal(ps[i])
                 /\ t.esc_buf[TERM_MAX_ESC - 1] = Decimal(ps[TERM_MAX_ESC] \o extra)

\* C14 witness: a run of one parameter more than the list holds was fed,
\* 33 as the last two: the list is full and its last slot holds 3333.
ExtraParamAccumulated ==
    /\ terminal.state = "TERM_ASCII"
    /\ terminal.esc_cnt = TERM_MAX_ESC
    /\ terminal.esc_buf[TERM_MAX_ESC - 1] = 3333

\* ------------------------------------------------------------------------
\* Properties of the display
\* ------------------------------------------------------------------------

\* C15: for every viewport position reachable by scrolling, with any
\* terminal height, print_buffer reads only rows 0..MAXLINES-1 of the
\* buffer: here, the pass the main loop is about to make.
\* (Stated as the claim states it; print_buffer clamps endline to MAXLINES,
\* one past the last row.)
RenderReadsInsideBuffer ==
    pc = "flush" =>
        LET w == FollowLast(windowpos, updowntoggle, last, LINES)
            rows == PrintRows(w, w + LINES - 3)
        IN  \A k \in DOMAIN rows : rows[k] \in Rows

\* C16: add_char_buffer called with a character other than newline on a
\* last line that already holds MAX_LINE_LENGTH-1 characters drops the
\* character: the stored lines and the last-line index are unchanged.
\* (Stated as the claim states it; the character replaces the last one
\* of the line.)
FullLineDropsExcess ==
    [][ ( /\ last \in Rows
          /\ Len(sbuffer[last]) = MAX_LINE_LENGTH - 1
          /\ Len(hist') = Len(hist) + 1
          /\ hist'[Len(hist')] \notin { LF, NUL } )
          => (sbuffer' = sbuffer /\ last' = last) ]_vars

\* C17: after every display computation with the cursor in 0..size, the
\* cursor is placed at column pos - start, and that column lies inside the
\* window, 0..COLS-1.
\* (Stated as the claim states it; wmove is given pos, and pos - start is
\* COLS whenever pos >= COLS.)
CursorInsideWindow ==
    (COLS >= 1 /\ editbuf.pos <= editbuf.size) =>
        /\ editbuf_cursor(editbuf) = editbuf.pos - editbuf.start
        /\ editbuf_cursor(editbuf) \in 0 .. (COLS - 1)

\* C18: text written through on_text_plain bypasses escape interpretation
\* end to end: while the buffer holds nothing but such text (no application
\* data has arrived, and no key has moved the viewport), displaying it
\* leaves the renderer in the Plain state with the default style.
\* (Stated as the claim states it; the rows are displayed through
\* send_text_ansi whatever path stored them.)
PassThroughNotInterpreted ==
    (rx = <<>> /\ nkeys = 0) =>
        (terminal.state = "TERM_ASCII" /\ terminal.color = TERM_COLOR_DEFAULT)

\* the sequence without its i-th element
RemoveAt(q, i) == [k \in 1 .. (Len(q) - 1) |-> IF k < i THEN q[k] ELSE q[k + 1]]

\* C19: KEY_DC with the cursor before the end removes exactly the
\* character at the cursor, decreases size by one, keeps the order of the
\* other characters and leaves pos unchanged, the last character
\* included; with the cursor at the end it changes nothing.
\* (Stated as the claim states it; on the last character editbuf_del
\* decrements pos as well.)
DeleteForwardKeepsCursor ==
    [][ (~crashed /\ editbuf.size < EDITBUF_MAX /\ editbuf.pos <= editbuf.size
            /\ on_key(KEY_DC))
          => IF editbuf.pos < editbuf.size
             THEN /\ editbuf'.pos = editbuf.pos
                  /\ editbuf'.size = editbuf.size - 1
                  /\ Content(editbuf') = RemoveAt(Content(editbuf), editbuf.pos + 1)
             ELSE /\ editbuf'.pos = editbuf.pos
                  /\ editbuf'.size = editbuf.size
                  /\ editbuf'.buf = editbuf.buf ]_vars

\* ------------------------------------------------------------------------
\* Properties of the negotiation
\* ------------------------------------------------------------------------

\* C20: send_naws, called by a redraw for a resize, sends a report exactly
\* when the peer's most recent message about NAWS was DO: none before any
\* DO, one right after a DO, none right after a DONT.
\* (Stated as the claim states it; TELNET_EV_DONT is not handled.)
NawsOnlyWhileWanted ==
    [][ ev'.type = "WINCH" =>
          /\ (~peer_do_naws => telnet_out' = <<>>)
          /\ (ev = [type |-> "DO", telopt |-> TELNET_TELOPT_NAWS]
                => telnet_out' = << << "naws", NawsPayload(COLS', LINES') >> >>)
          /\ (ev = [type |-> "DONT", telopt |-> TELNET_TELOPT_NAWS]
                => telnet_out' = <<>>) ]_vars

\* C21: every pass of print_buffer over the scrollback begins with the
\* renderer in the Plain state: terminal.state is TERM_ASCII whenever the
\* main loop is about to redraw or to flush, whatever chunks were received
\* before (here with no key pressed, so that no pass left the buffer).
\* (Stated as the claim states it; a pass over a row that ends inside an
\* escape sequence leaves the state to the next pass.)
RenderPassStartsPlain ==
    (pc \in { "flush", "redraw" } /\ nkeys = 0) => terminal.state = "TERM_ASCII"

====
